---- MODULE Spec2Model ----
(***************************************************************************)
(* Model of the Blackjack table server (src/Server.py): the shared Mesa,   *)
(* the per-connection worker manejar_cliente, the turn engine and the      *)
(* dealer resolution.                                                      *)
(*                                                                         *)
(* The shoe (Mesa.mazo) is a randomly shuffled list; the model keeps its   *)
(* length and lets every pop() return any card of the card set in play.    *)
(* Indices turno_idx / mano_turno_idx are 0-based as in the source; At     *)
(* reads a 0-based position of a TLA+ sequence.  A player's display name   *)
(* plays no part in the logic: the connection id stands for it.            *)
(***************************************************************************)
EXTENDS Integers, Sequences, FiniteSets, TLC

VARIABLES jugadores, banca, mazo, en_apuestas, en_ronda, turno_idx,
          mano_turno_idx, pc, eventos, ultimo, terminadas, rondas, escenario,
          extracciones, respondieron

mesaVars == <<jugadores, banca, mazo, en_apuestas, en_ronda, turno_idx, mano_turno_idx>>
vars == <<jugadores, banca, mazo, en_apuestas, en_ronda, turno_idx,
          mano_turno_idx, pc, eventos, ultimo, terminadas, rondas, escenario,
          extracciones, respondieron>>

(* ------------------------------ constants ------------------------------ *)

MAX_JUGADORES == 4
SALDO_INICIAL == 500
BARAJAS == 6
UMBRAL_BARAJAR == 52
PLANTA_BANCA == 17
LIMITE == 21
None == -1

(* ------------------------------- bounds -------------------------------- *)

\* connections accepted at the table with several players
MaxClientes == 2
\* kinds of card the shuffled shoe yields at the table with one player,
\* taken from the head of Baraja
NCartas == 2
\* betting phases opened
MaxRondas == 1
\* cards a player's hand may grow to by SUBIR
MaxMano == 3
\* positive amount a client sends with APOSTAR
Apuesta == 200
\* a smaller amount, that a balance of 500 covers four times
ApuestaChica == 150
\* length of the shoe left by earlier rounds at the table that starts low
MazoBajo == 52
\* cards of the hands whose value is computed
MaxCartasMano == 3

Baraja == << <<"8", "H">>, <<"5", "S">>, <<"A", "S">>, <<"8", "S">>, <<"K", "D">> >>
Montos == {0, ApuestaChica, Apuesta}
TodosClientes == 1..(MAX_JUGADORES + 1)

\* the two kinds of card with which the dealer can stop on a soft 17
Suaves == {<<"A", "S">>, <<"6", "C">>}

\* the commands of a participant's turn
Jugadas == {"SUBIR", "QUEDARSE", "DOBLAR", "DIVIDIR"}

Esc(n, cartas, juego, libre, montos, mz, salen, jugadas) ==
    [clientes |-> n, cartas |-> cartas, juego |-> juego, libre |-> libre,
     montos |-> montos, mazo |-> mz, salen |-> salen, jugadas |-> jugadas]

\* The environments the table is followed in: how many connections arrive,
\* which kinds of card the shoe yields, whether the clients send game commands
\* or only connect and leave (juego), whether they send any command at any
\* time (libre) or only the commands their client offers them (INICIAR when
\* idle, a bet or a cancel when asked, a play when holding the turn), which
\* amounts they bet, how many cards earlier rounds left in the shoe, whether
\* clients leave the table (salen) and which commands they play a turn with.
Escenarios ==
    { Esc(MaxClientes, {Baraja[1]}, TRUE, TRUE, {0, Apuesta}, 13 * 4 * BARAJAS, TRUE, Jugadas),
      Esc(1, {Baraja[i] : i \in 1..NCartas}, TRUE, TRUE, {0, Apuesta}, 13 * 4 * BARAJAS,
          TRUE, Jugadas),
      Esc(MaxClientes + 1, {Baraja[1]}, TRUE, FALSE, {Apuesta}, 13 * 4 * BARAJAS,
          TRUE, Jugadas),
      Esc(MAX_JUGADORES + 1, {Baraja[1]}, FALSE, FALSE, {}, 13 * 4 * BARAJAS, TRUE, {}),
      Esc(1, {Baraja[1]}, TRUE, TRUE, {ApuestaChica}, MazoBajo, TRUE, Jugadas),
      Esc(1, Suaves, TRUE, FALSE, {Apuesta}, 13 * 4 * BARAJAS, TRUE, Jugadas),
      Esc(MAX_JUGADORES, {Baraja[1]}, TRUE, FALSE, {ApuestaChica}, MazoBajo,
          FALSE, {"QUEDARSE"}) }

Cartas == escenario.cartas
Clientes == 1..escenario.clientes
OCULTA == <<"?", "?">>

(* -------------------------- cards and hands ---------------------------- *)

VALORES(r) ==
    CASE r = "A" -> 11
      [] r \in {"10", "J", "Q", "K"} -> 10
      [] r = "2" -> 2 [] r = "3" -> 3 [] r = "4" -> 4 [] r = "5" -> 5
      [] r = "6" -> 6 [] r = "7" -> 7 [] r = "8" -> 8 [] r = "9" -> 9

TAM_MAZO == 13 * 4 * BARAJAS

At(s, i) == s[i + 1]

RECURSIVE SumaValores(_)
SumaValores(mano) ==
    IF mano = <<>> THEN 0 ELSE VALORES(Head(mano)[1]) + SumaValores(Tail(mano))

RECURSIVE CuentaAses(_)
CuentaAses(mano) ==
    IF mano = <<>> THEN 0
    ELSE (IF Head(mano)[1] = "A" THEN 1 ELSE 0) + CuentaAses(Tail(mano))

RECURSIVE AjustarAses(_, _)
\* an adjustment that lowers one ace at most
AjustarAses_una_vez(total, ases) ==
    IF total > LIMITE /\ ases > 0 THEN total - 10 ELSE total

AjustarAses(total, ases) ==
    IF total > LIMITE /\ ases > 0 THEN AjustarAses(total - 10, ases - 1) ELSE total

valor_mano(mano) == AjustarAses(SumaValores(mano), CuentaAses(mano))

\* a reshuffle that leaves the shoe without cards
barajar_sin_reponer(mz) == IF mz < UMBRAL_BARAJAR THEN 0 ELSE mz

\* Mesa.barajar on the length of the shoe
barajar(mz) == IF mz < UMBRAL_BARAJAR THEN TAM_MAZO ELSE mz

\* the lengths the shoe has just before each of n consecutive pop() calls
Pops(mz, n) == {mz - k : k \in 0..(n - 1)}

(* --------------------------- the table state --------------------------- *)

Jugador(c) ==
    [id |-> c, saldo |-> SALDO_INICIAL, manos |-> <<>>, apuestas |-> <<>>,
     espera_apuesta |-> FALSE]

\* the table as the handler finds it when it takes the lock; the events of
\* the previous step are gone
Mesa ==
    [jugadores |-> jugadores, banca |-> banca, mazo |-> mazo,
     en_apuestas |-> en_apuestas, en_ronda |-> en_ronda,
     turno_idx |-> turno_idx, mano_turno_idx |-> mano_turno_idx,
     eventos |-> <<>>, terminadas |-> terminadas,
     extracciones |-> {}, respondieron |-> respondieron]

Commit(m) ==
    /\ jugadores' = m.jugadores
    /\ banca' = m.banca
    /\ mazo' = m.mazo
    /\ en_apuestas' = m.en_apuestas
    /\ en_ronda' = m.en_ronda
    /\ turno_idx' = m.turno_idx
    /\ mano_turno_idx' = m.mano_turno_idx
    /\ eventos' = m.eventos
    /\ terminadas' = m.terminadas
    /\ extracciones' = m.extracciones
    /\ respondieron' = m.respondieron

Sentados(js) == {js[i].id : i \in 1..Len(js)}
\* 0-based seat of client c
Asiento(js, c) == (CHOOSE i \in 1..Len(js) : js[i].id = c) - 1

(* ------------------------------ sending -------------------------------- *)

\* destination 0 is a broadcast to the seated list, otherwise one client
\* a send that reaches the whole table instead of one connection
safe_send_a_todos(m, c, ev) == [m EXCEPT !.eventos = Append(@, [ev EXCEPT !.a = 0])]

safe_send(m, c, ev) == [m EXCEPT !.eventos = Append(@, [ev EXCEPT !.a = c])]
broadcast(m, ev) == [m EXCEPT !.eventos = Append(@, [ev EXCEPT !.a = 0])]

Error(msg) == [tipo |-> "ERROR", a |-> 0, mensaje |-> msg]
Info(msg) == [tipo |-> "INFO", a |-> 0, mensaje |-> msg]
Simple(t) == [tipo |-> t, a |-> 0]

\* a view of the dealer that hides nothing
vista_banca_abierta(m) == m.banca

vista_banca(m) ==
    IF m.en_ronda /\ Len(m.banca) >= 2 THEN <<m.banca[1], OCULTA>> ELSE m.banca

\* en_ronda is not a field of the message: it records the phase in which the
\* message was sent
estado_json(m) ==
    [tipo |-> "ESTADO", a |-> 0, banca |-> vista_banca(m),
     turno |-> IF m.turno_idx # None /\ 0 <= m.turno_idx /\ m.turno_idx < Len(m.jugadores)
               THEN At(m.jugadores, m.turno_idx).id ELSE None,
     mano_turno_idx |-> m.mano_turno_idx,
     en_ronda |-> m.en_ronda]

broadcast_estado(m) == broadcast(m, estado_json(m))

(* ---------------------------- turn engine ------------------------------ *)

Activo(j) == j.apuestas # <<>> /\ j.manos # <<>>

Minimo(S) == IF S = {} THEN None ELSE CHOOSE x \in S : \A y \in S : x <= y

\* a first turn that always goes to seat 0
_primer_idx_activo_asiento_cero(js) == IF js = <<>> THEN None ELSE 0

_primer_idx_activo(js) ==
    Minimo({i \in 0..(Len(js) - 1) : Activo(At(js, i))})

\* a search that answers the next seat without looking at the table
_siguiente_idx_activo_ciego(js, idx_actual) == idx_actual + 1

_siguiente_idx_activo(js, idx_actual) ==
    Minimo({i \in (idx_actual + 1)..(Len(js) - 1) : Activo(At(js, i))})

\* `x or 0` of the source
O0(x) == IF x = None THEN 0 ELSE x

(* ----------------------- dealer and settlement ------------------------- *)

\* a dealer that counts every ace as 1 when deciding to draw (hits soft 17)
DebeRobar_dura(b) == SumaValores(b) - 10 * CuentaAses(b) < PLANTA_BANCA

\* the condition of the dealer's while loop
DebeRobar(b) == valor_mano(b) < PLANTA_BANCA

\* the dealer's draw loop: every final hand and shoe length it can end with
RECURSIVE RobarBanca(_, _, _)
RobarBanca(b, mz, ex) ==
    IF DebeRobar(b)
    THEN UNION {RobarBanca(Append(b, c), barajar(mz) - 1, ex \cup Pops(barajar(mz), 1))
                : c \in Cartas}
    ELSE {<<b, mz, ex>>}

Resultado(total, total_banca) ==
    IF total > LIMITE THEN "pierde"
    ELSE IF total_banca > LIMITE \/ total > total_banca THEN "gana"
    ELSE IF total = total_banca THEN "empata"
    ELSE "pierde"

\* a settlement that pays a win without returning the stake
Abono_sin_retorno(res, ap) == IF res = "gana" \/ res = "empata" THEN ap ELSE 0

Abono(res, ap) == IF res = "gana" THEN ap * 2 ELSE IF res = "empata" THEN ap ELSE 0
\* a reported delta that shows the winnings and hides the losses
Delta_solo_ganancia(res, ap) == IF res = "gana" THEN ap ELSE 0

Delta(res, ap) == IF res = "gana" THEN ap ELSE IF res = "empata" THEN 0 ELSE 0 - ap

\* the bets of j aligned with its hands (padding with 0)
Alineadas(j) ==
    [i \in 1..(IF Len(j.apuestas) < Len(j.manos) THEN Len(j.manos) ELSE Len(j.apuestas)) |->
        IF i <= Len(j.apuestas) THEN j.apuestas[i] ELSE 0]

RECURSIVE SumaAbonos(_, _, _)
SumaAbonos(j, total_banca, i) ==
    IF i > Len(j.manos) THEN 0
    ELSE Abono(Resultado(valor_mano(j.manos[i]), total_banca), Alineadas(j)[i])
         + SumaAbonos(j, total_banca, i + 1)

\* a settlement that reports only the first hand of each participant
DetalleJugador_primera_mano(j, total_banca) ==
    IF j.manos = <<>> THEN <<>>
    ELSE << <<j.id, 0, Resultado(valor_mano(j.manos[1]), total_banca),
              Delta(Resultado(valor_mano(j.manos[1]), total_banca), Alineadas(j)[1])>> >>

DetalleJugador(j, total_banca) ==
    [i \in 1..Len(j.manos) |->
        <<j.id, i - 1, Resultado(valor_mano(j.manos[i]), total_banca),
          Delta(Resultado(valor_mano(j.manos[i]), total_banca), Alineadas(j)[i])>>]

RECURSIVE Detalle(_, _)
Detalle(js, total_banca) ==
    IF js = <<>> THEN <<>>
    ELSE DetalleJugador(Head(js), total_banca) \o Detalle(Tail(js), total_banca)

Liquidar(m, b, mz) ==
    LET total_banca == valor_mano(b)
        pagados == [i \in 1..Len(m.jugadores) |->
                      [m.jugadores[i] EXCEPT
                          !.saldo = @ + SumaAbonos(m.jugadores[i], total_banca, 1)]]
        limpios == [i \in 1..Len(pagados) |->
                      [pagados[i] EXCEPT !.manos = <<>>, !.apuestas = <<>>,
                                         !.espera_apuesta = FALSE]]
        ev == [tipo |-> "RESULTADOS", a |-> 0, banca |-> b, total_banca |-> total_banca,
               detalle |-> Detalle(m.jugadores, total_banca),
               antes |-> m.jugadores]
    IN  [broadcast([m EXCEPT !.banca = b, !.mazo = mz], ev) EXCEPT
            !.jugadores = limpios, !.en_ronda = FALSE, !.en_apuestas = FALSE]

jugar_banca(m) ==
    {Liquidar([m EXCEPT !.extracciones = r[3]], r[1], r[2])
     : r \in RobarBanca(m.banca, m.mazo, m.extracciones)}

\* a turn engine that leaves the turn where it is
siguiente_turno_quieto(m) == {m}

\* a turn engine that passes the turn to the next participant without
\* naming the hand
siguiente_turno_sin_mano(m) ==
    IF ~m.en_ronda \/ m.turno_idx = None THEN {m}
    ELSE
      LET t == m.turno_idx
          hayActual == 0 <= t /\ t < Len(m.jugadores)
          nxt == _siguiente_idx_activo(m.jugadores, t)
          pasar == IF nxt = None
                   THEN jugar_banca([m EXCEPT !.turno_idx = None, !.mano_turno_idx = None])
                   ELSE {broadcast_estado([m EXCEPT !.turno_idx = nxt,
                                                    !.mano_turno_idx = None])}
          mi == O0(m.mano_turno_idx)
      IN  IF ~hayActual \/ ~Activo(At(m.jugadores, t)) THEN pasar
          ELSE IF mi + 1 < Len(At(m.jugadores, t).manos)
               THEN {broadcast_estado([m EXCEPT !.mano_turno_idx = mi + 1])}
               ELSE pasar

siguiente_turno(m) ==
    IF ~m.en_ronda \/ m.turno_idx = None THEN {m}
    ELSE
      LET t == m.turno_idx
          hayActual == 0 <= t /\ t < Len(m.jugadores)
          nxt == _siguiente_idx_activo(m.jugadores, t)
          pasar == IF nxt = None
                   THEN jugar_banca([m EXCEPT !.turno_idx = None, !.mano_turno_idx = None])
                   ELSE {broadcast_estado([m EXCEPT !.turno_idx = nxt, !.mano_turno_idx = 0])}
          mi == O0(m.mano_turno_idx)
      IN  IF ~hayActual \/ ~Activo(At(m.jugadores, t)) THEN pasar
          ELSE IF mi + 1 < Len(At(m.jugadores, t).manos)
               THEN {broadcast_estado([m EXCEPT !.mano_turno_idx = mi + 1])}
               ELSE pasar

(* ---------------------------- betting cycle ---------------------------- *)

abrir_apuestas(m) ==
    LET js == [i \in 1..Len(m.jugadores) |->
                 [m.jugadores[i] EXCEPT !.manos = <<>>, !.apuestas = <<>>,
                                        !.espera_apuesta = TRUE]]
        m1 == broadcast([m EXCEPT !.en_apuestas = TRUE, !.en_ronda = FALSE,
                                  !.banca = <<>>, !.jugadores = js,
                                  !.respondieron = {}],
                        Simple("APUESTAS_ABIERTAS"))
        RECURSIVE Preguntar(_, _)
        Preguntar(mm, i) ==
            IF i > Len(js) THEN mm
            ELSE Preguntar(safe_send(mm, js[i].id, Simple("PREGUNTAR_APUESTA")), i + 1)
    IN  Preguntar(m1, 1)

Par == Cartas \X Cartas
ParFijo == CHOOSE p \in Par : TRUE

\* every way the shuffled shoe can deal two cards to each betting player
Repartos(js) ==
    {f \in [1..Len(js) -> Par] : \A i \in 1..Len(js) : js[i].apuestas = <<>> => f[i] = ParFijo}

NumApostadores(js) == Cardinality({i \in 1..Len(js) : js[i].apuestas # <<>>})

\* a betting phase that nobody joined reported as an error and left open
cancelar_apuestas_con_error(m) ==
    {broadcast_estado(broadcast(m, Error("Nadie aposto")))}

\* `if not hay_apuestas:` the betting phase is called off
cancelar_apuestas(m) ==
    {broadcast_estado(broadcast([m EXCEPT !.en_apuestas = FALSE], Info("Nadie aposto")))}

\* `# Arranca ronda`: the deal that opens the round
arrancar_ronda(m) ==
    { LET js == [i \in 1..Len(m.jugadores) |->
                  [m.jugadores[i] EXCEPT
                      !.manos = IF m.jugadores[i].apuestas # <<>>
                                THEN << <<f[i][1], f[i][2]>> >> ELSE <<>>]]
          m1 == [m EXCEPT !.en_apuestas = FALSE, !.en_ronda = TRUE,
                          !.banca = <<b[1], b[2]>>,
                          !.mazo = barajar(m.mazo) - 2 - 2 * NumApostadores(m.jugadores),
                          !.extracciones = @ \cup Pops(barajar(m.mazo),
                                                       2 + 2 * NumApostadores(m.jugadores)),
                          !.jugadores = js,
                          !.turno_idx = _primer_idx_activo(js),
                          !.mano_turno_idx = IF _primer_idx_activo(js) # None THEN 0 ELSE None,
                          !.terminadas = {}]
      IN  broadcast_estado(broadcast(m1, Simple("RONDA_INICIADA")))
      : b \in Par, f \in Repartos(m.jugadores) }

\* a start check that never looks at the table
evaluar_inicio_ronda_omitida(m) == {m}

evaluar_inicio_ronda(m) ==
    IF ~m.en_apuestas THEN {m}
    ELSE IF m.jugadores = <<>> THEN {m}
    ELSE IF \E i \in 1..Len(m.jugadores) : m.jugadores[i].espera_apuesta THEN {m}
    ELSE IF \A i \in 1..Len(m.jugadores) : m.jugadores[i].apuestas = <<>>
    THEN cancelar_apuestas(m)
    ELSE arrancar_ronda(m)

(* ------------------- manejar_cliente: the commands --------------------- *)

\* a turn guard that forgets to compare the sender with the turn holder
EsTurnoDe_sin_identidad(m, c) == m.en_ronda /\ m.turno_idx # None

EsTurnoDe(m, c) ==
    /\ m.en_ronda
    /\ m.turno_idx # None
    /\ At(m.jugadores, m.turno_idx).id = c

\* the hand the turn is on has been played to its end
Terminar(m) ==
    [m EXCEPT !.terminadas =
        @ \cup {<<At(m.jugadores, m.turno_idx).id, O0(m.mano_turno_idx)>>}]

\* `if mesa.en_ronda: mesa.broadcast_estado()` after siguiente_turno
TrasTurno(S) == {IF r.en_ronda THEN broadcast_estado(r) ELSE r : r \in S}

InsertAt(s, i, x) == SubSeq(s, 1, i) \o <<x>> \o SubSeq(s, i + 1, Len(s))
Quitar(s, i) == SubSeq(s, 1, i - 1) \o SubSeq(s, i + 1, Len(s))

\* an INICIAR that opens the betting whatever the phase
iniciar_en_cualquier_fase(m, c) == abrir_apuestas(m)

iniciar(m, c) ==
    IF ~m.en_ronda /\ ~m.en_apuestas THEN abrir_apuestas(m)
    ELSE safe_send(m, c, Error("Ya hay una ronda o apuestas abiertas."))

\* a bet handler that debits without comparing the amount with the balance
apostar_sin_fondos(m, c, monto) ==
    LET i == Asiento(m.jugadores, c) + 1
        j == m.jugadores[i]
    IN  IF monto <= 0 THEN {safe_send(m, c, Error("Monto invalido."))}
        ELSE evaluar_inicio_ronda(
               broadcast([m EXCEPT !.jugadores[i] =
                             [j EXCEPT !.saldo = @ - monto, !.apuestas = <<monto>>,
                                       !.manos = <<>>, !.espera_apuesta = FALSE]],
                         [tipo |-> "APUESTA_OK", a |-> 0, nombre |-> c, monto |-> monto]))

apostar(m, c, monto) ==
    LET i == Asiento(m.jugadores, c) + 1
        j == m.jugadores[i]
    IN  IF monto <= 0 THEN {safe_send(m, c, Error("Monto invalido."))}
        ELSE IF j.saldo < monto THEN {safe_send(m, c, Error("Fondos insuficientes."))}
        ELSE evaluar_inicio_ronda(
               broadcast([m EXCEPT !.respondieron = @ \cup {c},
                                   !.jugadores[i] =
                             [j EXCEPT !.saldo = @ - monto, !.apuestas = <<monto>>,
                                       !.manos = <<>>, !.espera_apuesta = FALSE]],
                         [tipo |-> "APUESTA_OK", a |-> 0, nombre |-> c, monto |-> monto]))

cancelar_apuesta(m, c) ==
    LET i == Asiento(m.jugadores, c) + 1
        m1 == [m EXCEPT !.respondieron = @ \cup {c},
                        !.jugadores[i] =
                  [@ EXCEPT !.apuestas = <<>>, !.manos = <<>>, !.espera_apuesta = FALSE]]
    IN  evaluar_inicio_ronda(broadcast_estado(broadcast(m1, Info("cancelo su apuesta"))))

\* a SUBIR that leaves the turn on a hand that went over 21
subir_sin_avanzar(m, c) ==
    IF ~EsTurnoDe(m, c) THEN {safe_send(m, c, Error("No es tu turno."))}
    ELSE
      LET t == m.turno_idx
          j == At(m.jugadores, t)
          mi == O0(m.mano_turno_idx)
      IN  IF mi < 0 \/ mi >= Len(j.manos)
          THEN {safe_send(m, c, Error("No hay mano activa."))}
          ELSE {
            LET mano == Append(At(j.manos, mi), carta)
                m1 == [m EXCEPT !.mazo = barajar(m.mazo) - 1,
                                !.extracciones = @ \cup Pops(barajar(m.mazo), 1),
                                !.jugadores[t + 1].manos[mi + 1] = mano]
            IN  broadcast_estado(broadcast(m1,
                   [tipo |-> "INFO", a |-> 0, mensaje |-> "pidio",
                    carta |-> carta, total |-> valor_mano(mano)]))
            : carta \in Cartas }

subir(m, c) ==
    IF ~EsTurnoDe(m, c) THEN {safe_send(m, c, Error("No es tu turno."))}
    ELSE
      LET t == m.turno_idx
          j == At(m.jugadores, t)
          mi == O0(m.mano_turno_idx)
      IN  IF mi < 0 \/ mi >= Len(j.manos)
          THEN {safe_send(m, c, Error("No hay mano activa."))}
          ELSE UNION {
            LET mano == Append(At(j.manos, mi), carta)
                total == valor_mano(mano)
                m1 == [m EXCEPT !.mazo = barajar(m.mazo) - 1,
                                !.extracciones = @ \cup Pops(barajar(m.mazo), 1),
                                !.jugadores[t + 1].manos[mi + 1] = mano]
                m2 == broadcast_estado(broadcast(m1,
                         [tipo |-> "INFO", a |-> 0, mensaje |-> "pidio",
                          carta |-> carta, total |-> total]))
            IN  IF total > LIMITE THEN TrasTurno(siguiente_turno(Terminar(m2)))
                ELSE {m2}
            : carta \in Cartas }

\* a QUEDARSE that is announced and leaves the turn where it is
quedarse_sin_avanzar(m, c) ==
    IF ~EsTurnoDe(m, c) THEN {safe_send(m, c, Error("No es tu turno."))}
    ELSE {broadcast_estado(broadcast(m, Info("se planta")))}

quedarse(m, c) ==
    IF ~EsTurnoDe(m, c) THEN {safe_send(m, c, Error("No es tu turno."))}
    ELSE TrasTurno(siguiente_turno(Terminar(broadcast(m, Info("se planta")))))

doblar(m, c) ==
    IF ~EsTurnoDe(m, c) THEN {safe_send(m, c, Error("No es tu turno."))}
    ELSE
      LET t == m.turno_idx
          j == At(m.jugadores, t)
          mi == O0(m.mano_turno_idx)
      IN  IF mi < 0 \/ mi >= Len(j.manos) \/ mi >= Len(j.apuestas)
          THEN {safe_send(m, c, Error("No hay mano activa para doblar."))}
          ELSE IF Len(At(j.manos, mi)) # 2
          THEN {safe_send(m, c, Error("Solo puedes doblar con 2 cartas."))}
          ELSE IF j.saldo < At(j.apuestas, mi)
          THEN {safe_send(m, c, Error("Fondos insuficientes para doblar."))}
          ELSE UNION {
            LET ap == At(j.apuestas, mi)
                mano == Append(At(j.manos, mi), carta)
                m1 == [m EXCEPT !.mazo = barajar(m.mazo) - 1,
                                !.extracciones = @ \cup Pops(barajar(m.mazo), 1),
                                !.jugadores[t + 1] =
                                    [j EXCEPT !.saldo = @ - ap,
                                              !.apuestas[mi + 1] = @ + ap,
                                              !.manos[mi + 1] = mano]]
                m2 == broadcast_estado(broadcast(m1,
                         [tipo |-> "INFO", a |-> 0, mensaje |-> "doblo",
                          carta |-> carta, total |-> valor_mano(mano)]))
            IN  TrasTurno(siguiente_turno(Terminar(m2)))
            : carta \in Cartas }

\* a split that does not charge the second bet
Partir_sin_cobro(j, mi, x, y) ==
    [j EXCEPT !.manos = InsertAt([j.manos EXCEPT ![mi + 1] = <<At(j.manos, mi)[1], x>>],
                                 mi + 1, <<At(j.manos, mi)[2], y>>),
              !.apuestas = InsertAt(j.apuestas, mi + 1, At(j.apuestas, mi))]

\* a split that charges the second bet without recording it
Partir_sin_apuesta(j, mi, x, y) ==
    [j EXCEPT !.saldo = @ - At(j.apuestas, mi),
              !.manos = InsertAt([j.manos EXCEPT ![mi + 1] = <<At(j.manos, mi)[1], x>>],
                                 mi + 1, <<At(j.manos, mi)[2], y>>)]

\* the player after an accepted DIVIDIR of hand mi that drew x and then y
Partir(j, mi, x, y) ==
    [j EXCEPT !.saldo = @ - At(j.apuestas, mi),
              !.manos = InsertAt([j.manos EXCEPT ![mi + 1] = <<At(j.manos, mi)[1], x>>],
                                 mi + 1, <<At(j.manos, mi)[2], y>>),
              !.apuestas = InsertAt(j.apuestas, mi + 1, At(j.apuestas, mi))]

dividir(m, c) ==
    IF ~EsTurnoDe(m, c) THEN {safe_send(m, c, Error("No es tu turno."))}
    ELSE
      LET t == m.turno_idx
          j == At(m.jugadores, t)
          mi == O0(m.mano_turno_idx)
      IN  IF mi < 0 \/ mi >= Len(j.manos) \/ mi >= Len(j.apuestas)
          THEN {safe_send(m, c, Error("No hay mano activa para dividir."))}
          ELSE
            LET mano == At(j.manos, mi)
                ap == At(j.apuestas, mi)
            IN  IF Len(mano) = 2 /\ mano[1][1] = mano[2][1] /\ j.saldo >= ap
                THEN { broadcast_estado(broadcast(
                         [m EXCEPT !.mazo = barajar(m.mazo) - 2,
                                   !.extracciones = @ \cup Pops(barajar(m.mazo), 2),
                                   !.jugadores[t + 1] = Partir(j, mi, x, y)],
                         Info("dividio su mano")))
                       : x \in Cartas, y \in Cartas }
                ELSE {safe_send(m, c, Error("No puedes dividir esta mano."))}

\* a cleanup that never moves turno_idx when a seat before it is vacated
desconectar_sin_ajuste(m, c) ==
    LET idx == Asiento(m.jugadores, c)
        m1 == broadcast([m EXCEPT !.jugadores = Quitar(m.jugadores, idx + 1)],
                        [tipo |-> "SALIO", a |-> 0, nombre |-> c])
        S == IF m1.en_ronda
             THEN IF m1.turno_idx # None /\ idx = m1.turno_idx
                  THEN TrasTurno(siguiente_turno(m1))
                  ELSE {m1}
             ELSE IF m1.en_apuestas THEN evaluar_inicio_ronda(m1)
             ELSE {m1}
    IN  {IF r.jugadores # <<>> THEN broadcast_estado(r) ELSE r : r \in S}

\* the finally block: cleanup when the worker's loop ends (SALIR, a closed
\* or failed connection)
desconectar(m, c) ==
    LET idx == Asiento(m.jugadores, c)
        m1 == broadcast([m EXCEPT !.jugadores = Quitar(m.jugadores, idx + 1)],
                        [tipo |-> "SALIO", a |-> 0, nombre |-> c])
        S == IF m1.en_ronda
             THEN IF m1.turno_idx # None
                  THEN IF idx = m1.turno_idx THEN TrasTurno(siguiente_turno(m1))
                       ELSE IF idx < m1.turno_idx
                            THEN {[m1 EXCEPT !.turno_idx = @ - 1]}
                            ELSE {m1}
                  ELSE {m1}
             ELSE IF m1.en_apuestas THEN evaluar_inicio_ronda(m1)
             ELSE {m1}
    IN  {IF r.jugadores # <<>> THEN broadcast_estado(r) ELSE r : r \in S}

\* the three kinds of line the decode loop does not take as a command: not
\* JSON at all, JSON that is not an object, an object without "tipo"
Clases == {"NO_JSON", "NO_OBJETO", "SIN_TIPO"}

\* lines 399-405 and 619-620: json.loads failing is caught and the line is
\* skipped; msg.get on a value that is not an object raises outside that try,
\* which ends the loop through `except Exception` and the finally block; an
\* object without "tipo" matches no command
linea_malformada(m, c, clase) ==
    IF clase = "NO_OBJETO"
    THEN desconectar(safe_send(m, c, Error("Conexion")), c)
    ELSE {m}

\* the steps of a worker whose accesses to the table are all inside a
\* `with lock:` block; the UNIDO broadcast of line 392 is not
ConCerrojo ==
    {"CONECTAR", "SENTAR", "INICIAR", "APOSTAR", "CANCELAR_APUESTA", "SUBIR",
     "QUEDARSE", "DOBLAR", "DIVIDIR", "SALIR"} \cup Clases

(* ------------------------------ actions -------------------------------- *)

Cmd(c, t, monto) == [c |-> c, tipo |-> t, monto |-> monto]

\* the model follows the table up to the settlement of round MaxRondas
Vivo == rondas < MaxRondas \/ en_ronda \/ en_apuestas

\* what every step of a worker shares: the bound and the fixed environment
Marco(c) == c \in Clientes /\ Vivo /\ UNCHANGED escenario

Init ==
    /\ escenario \in Escenarios
    /\ jugadores = <<>>
    /\ banca = <<>>
    /\ mazo = escenario.mazo
    /\ en_apuestas = FALSE
    /\ en_ronda = FALSE
    /\ turno_idx = None
    /\ mano_turno_idx = None
    /\ pc = [c \in TodosClientes |-> "nuevo"]
    /\ eventos = <<>>
    /\ ultimo = Cmd(0, "", 0)
    /\ terminadas = {}
    /\ rondas = 0
    /\ extracciones = {}
    /\ respondieron = {}

\* lines 382-386: the admission check, in its own critical section
Admitir(c) ==
    /\ Marco(c)
    /\ pc[c] = "nuevo"
    /\ \A d \in 1..(c - 1) : pc[d] # "nuevo"
    /\ IF Len(jugadores) >= MAX_JUGADORES
       THEN /\ pc' = [pc EXCEPT ![c] = "fuera"]
            /\ eventos' = <<[Error("Mesa llena (max 4).") EXCEPT !.a = c]>>
       ELSE /\ pc' = [pc EXCEPT ![c] = "admitido"]
            /\ eventos' = <<>>
    /\ ultimo' = Cmd(c, "CONECTAR", 0)
    /\ extracciones' = {}
    /\ UNCHANGED <<mesaVars, terminadas, respondieron, rondas>>

\* lines 388-391: the append, in a second critical section
Sentar(c) ==
    /\ Marco(c)
    /\ pc[c] = "admitido"
    /\ jugadores' = Append(jugadores, Jugador(c))
    /\ pc' = [pc EXCEPT ![c] = "unido"]
    /\ eventos' = <<>>
    /\ ultimo' = Cmd(c, "SENTAR", 0)
    /\ extracciones' = {}
    /\ UNCHANGED <<banca, mazo, en_apuestas, en_ronda, turno_idx, mano_turno_idx,
                   terminadas, respondieron, rondas>>

\* line 392: the UNIDO broadcast, outside the lock
Anunciar(c) ==
    /\ Marco(c)
    /\ pc[c] = "unido"
    /\ pc' = [pc EXCEPT ![c] = "sentado"]
    /\ eventos' = <<[tipo |-> "UNIDO", a |-> 0, nombre |-> c]>>
    /\ ultimo' = Cmd(c, "UNIDO", 0)
    /\ extracciones' = {}
    /\ UNCHANGED <<mesaVars, terminadas, respondieron, rondas>>

Paso(c, t, monto, S) ==
    /\ Marco(c)
    /\ escenario.juego
    /\ pc[c] = "sentado"
    /\ t \in Jugadas => t \in escenario.jugadas
    /\ \E r \in S : Commit(r)
    /\ ultimo' = Cmd(c, t, monto)
    /\ UNCHANGED <<pc, rondas>>

\* Cliente.puedo_dividir, on the state the last ESTADO showed the client
puedo_dividir(c) ==
    /\ en_ronda
    /\ turno_idx # None /\ 0 <= turno_idx /\ turno_idx < Len(jugadores)
    /\ At(jugadores, turno_idx).id = c
    /\ LET j == At(jugadores, turno_idx)
       IN  /\ Len(j.manos) = 1 /\ Len(j.apuestas) = 1
           /\ Len(j.manos[1]) = 2
           /\ j.manos[1][1][1] = j.manos[1][2][1]
           /\ j.saldo >= j.apuestas[1]

Pidiendo(c) ==
    /\ en_apuestas
    /\ \E i \in 1..Len(jugadores) : jugadores[i].id = c /\ jugadores[i].espera_apuesta

Iniciar(c) ==
    /\ Marco(c)
    /\ escenario.juego
    /\ pc[c] = "sentado"
    /\ escenario.libre \/ (~en_ronda /\ ~en_apuestas)
    /\ (~en_ronda /\ ~en_apuestas) => rondas < MaxRondas
    /\ Commit(iniciar(Mesa, c))
    /\ ultimo' = Cmd(c, "INICIAR", 0)
    /\ rondas' = IF ~en_ronda /\ ~en_apuestas THEN rondas + 1 ELSE rondas
    /\ UNCHANGED pc

Apostar(c, monto) ==
    /\ pc[c] = "sentado"
    /\ monto \in escenario.montos
    /\ escenario.libre \/ (Pidiendo(c) /\ monto > 0)
    /\ Paso(c, "APOSTAR", monto, apostar(Mesa, c, monto))

CancelarApuesta(c) ==
    /\ pc[c] = "sentado"
    /\ escenario.libre \/ Pidiendo(c)
    /\ Paso(c, "CANCELAR_APUESTA", 0, cancelar_apuesta(Mesa, c))

Subir(c) ==
    /\ pc[c] = "sentado"
    /\ EsTurnoDe(Mesa, c) /\ O0(mano_turno_idx) < Len(At(jugadores, turno_idx).manos)
          => Len(At(At(jugadores, turno_idx).manos, O0(mano_turno_idx))) < MaxMano
    /\ escenario.libre \/ EsTurnoDe(Mesa, c)
    /\ Paso(c, "SUBIR", 0, subir(Mesa, c))

Quedarse(c) ==
    /\ pc[c] = "sentado"
    /\ escenario.libre \/ EsTurnoDe(Mesa, c)
    /\ Paso(c, "QUEDARSE", 0, quedarse(Mesa, c))

Doblar(c) ==
    /\ pc[c] = "sentado"
    /\ escenario.libre \/ EsTurnoDe(Mesa, c)
    /\ Paso(c, "DOBLAR", 0, doblar(Mesa, c))

Dividir(c) ==
    /\ pc[c] = "sentado"
    /\ escenario.libre \/ puedo_dividir(c)
    /\ Paso(c, "DIVIDIR", 0, dividir(Mesa, c))

Desconectar(c) ==
    /\ Marco(c)
    /\ escenario.salen
    /\ pc[c] = "sentado"
    /\ \E r \in desconectar(Mesa, c) : Commit(r)
    /\ ultimo' = Cmd(c, "SALIR", 0)
    /\ pc' = [pc EXCEPT ![c] = "fuera"]
    /\ UNCHANGED rondas

Malformado(c, clase) ==
    /\ Marco(c)
    /\ escenario.juego /\ escenario.libre
    /\ pc[c] = "sentado"
    /\ \E r \in linea_malformada(Mesa, c, clase) : Commit(r)
    /\ ultimo' = Cmd(c, clase, 0)
    /\ pc' = IF clase = "NO_OBJETO" THEN [pc EXCEPT ![c] = "fuera"] ELSE pc
    /\ UNCHANGED rondas

Next ==
    \E c \in TodosClientes :
        \/ Admitir(c)
        \/ Sentar(c)
        \/ Anunciar(c)
        \/ Desconectar(c)
        \/ Iniciar(c)
        \/ \E monto \in Montos : Apostar(c, monto)
        \/ CancelarApuesta(c)
        \/ Subir(c)
        \/ Quedarse(c)
        \/ Doblar(c)
        \/ Dividir(c)
        \/ \E clase \in Clases : Malformado(c, clase)

Spec == Init /\ [][Next]_vars

(* ------------------- a table whose turn holder answers ----------------- *)

\* the participant the turn is on sends QUEDARSE or closes its connection
TurnoResponde(c) ==
    /\ en_ronda /\ turno_idx # None /\ At(jugadores, turno_idx).id = c
    /\ Quedarse(c) \/ Desconectar(c)

\* weak fairness of the turn holder's answer, WF_vars(\E c : TurnoResponde(c)),
\* written out: that step is possible exactly in the states of a round
JustoTurno ==
    \/ []<>(~en_ronda)
    \/ []<><<\E c \in TodosClientes : TurnoResponde(c)>>_vars

\* the same table, with a turn holder that does not stay silent for ever
SpecJusta == Spec /\ JustoTurno

(* --------------------- the value of a hand, alone ---------------------- *)

RANGOS == {"A", "2", "3", "4", "5", "6", "7", "8", "9", "10", "J", "Q", "K"}

\* every hand of up to MaxCartasMano cards, one suit standing for the four
ManosPosibles == UNION {[1..n -> RANGOS \X {"S"}] : n \in 0..MaxCartasMano}

\* a table whose dealer holds any hand
InitManos ==
    /\ escenario = Esc(0, {}, FALSE, FALSE, {}, TAM_MAZO, FALSE, {})
    /\ jugadores = <<>>
    /\ banca \in ManosPosibles
    /\ mazo = escenario.mazo
    /\ en_apuestas = FALSE
    /\ en_ronda = FALSE
    /\ turno_idx = None
    /\ mano_turno_idx = None
    /\ pc = [c \in TodosClientes |-> "nuevo"]
    /\ eventos = <<>>
    /\ ultimo = Cmd(0, "", 0)
    /\ terminadas = {}
    /\ rondas = 0
    /\ extracciones = {}
    /\ respondieron = {}

\* total_banca = valor_mano(self.banca), reported as in RESULTADOS
Valorar ==
    /\ eventos = <<>>
    /\ eventos' = <<[tipo |-> "TOTAL", a |-> 0, total_banca |-> valor_mano(banca)]>>
    /\ ultimo' = Cmd(0, "VALORAR", 0)
    /\ UNCHANGED <<mesaVars, pc, terminadas, rondas, escenario, extracciones, respondieron>>

NextManos == Valorar

SpecManos == InitManos /\ [][NextManos]_vars

(* ------------------------------- claims -------------------------------- *)

HayResultados(evs) == \E k \in 1..Len(evs) : evs[k].tipo = "RESULTADOS"
SoloError(evs, c) == Len(evs) = 1 /\ evs[1].tipo = "ERROR" /\ evs[1].a = c
TieneTurno(c) == en_ronda /\ turno_idx # None /\ At(jugadores, turno_idx).id = c
\* first seat at or after 0-based position i whose player has a bet and a hand
PrimeroDesde(js, i) == Minimo({k \in i..(Len(js) - 1) : Activo(At(js, k))})

\* C1: when the participant holding the turn leaves during an active round,
\* the turn passes to hand 0 of the first remaining participant seated after
\* it that has a bet and a hand, and the dealer resolves only if there is none.
C1_DesconexionAvanzaUnaVez ==
    [][ \A c \in TodosClientes :
          (pc[c] = "sentado" /\ pc'[c] = "fuera" /\ TieneTurno(c))
          => LET resto == Quitar(jugadores, turno_idx + 1)
                 k == PrimeroDesde(resto, turno_idx)
             IN  IF k # None
                 THEN en_ronda' /\ turno_idx' = k /\ mano_turno_idx' = 0
                      /\ ~HayResultados(eventos')
                 ELSE ~en_ronda' /\ turno_idx' = None /\ HayResultados(eventos')
      ]_vars

\* C2: the seated list never holds more than MAX_JUGADORES participants.
C2_CupoDeLaMesa == Len(jugadores) <= MAX_JUGADORES

\* C3: a SUBIR, QUEDARSE, DOBLAR or DIVIDIR from a participant that does not
\* hold the turn, or outside a round, yields one ERROR to the sender and
\* leaves the whole table unchanged.
C3_FueraDeTurnoSinEfecto ==
    [][ (ultimo'.tipo \in Jugadas /\ ~TieneTurno(ultimo'.c))
        => (UNCHANGED mesaVars /\ SoloError(eventos', ultimo'.c)) ]_vars

C3_Testigo ==
    /\ ultimo.tipo \in Jugadas
    /\ en_ronda /\ turno_idx # None
    /\ ultimo.c \in Sentados(jugadores)
    /\ At(jugadores, turno_idx).id # ultimo.c
    /\ SoloError(eventos, ultimo.c)

\* C4: an APOSTAR or CANCELAR_APUESTA received while betting is not open
\* yields one ERROR to the sender and leaves the table unchanged.
C4_ApuestaFueraDeFase ==
    [][ (ultimo'.tipo \in {"APOSTAR", "CANCELAR_APUESTA"} /\ ~en_apuestas)
        => (UNCHANGED mesaVars /\ SoloError(eventos', ultimo'.c)) ]_vars

\* C5: whenever turno_idx is defined, the participant it indexes has a
\* non-empty bet list and a non-empty hand list.
C5_TurnoConManoYApuesta ==
    turno_idx # None =>
        /\ 0 <= turno_idx /\ turno_idx < Len(jugadores)
        /\ Activo(At(jugadores, turno_idx))

\* C6: while a round is active every seated participant has as many hands
\* as bets.
C6_ManosIgualApuestas ==
    en_ronda => \A i \in 1..Len(jugadores) :
                    Len(jugadores[i].manos) = Len(jugadores[i].apuestas)

\* C7: a participant is seated with a balance of 500, and no balance is
\* ever negative.
C7_SaldoNoNegativo ==
    /\ \A i \in 1..Len(jugadores) : jugadores[i].saldo >= 0
    /\ \A i \in 1..Len(jugadores) :
          pc[jugadores[i].id] = "unido" => jugadores[i].saldo = 500

C7_Testigo ==
    \E i \in 1..Len(jugadores) :
        /\ en_ronda
        /\ Len(jugadores[i].apuestas) = 2
        /\ jugadores[i].saldo + jugadores[i].apuestas[1] + jugadores[i].apuestas[2] = 500
        /\ jugadores[i].saldo < jugadores[i].apuestas[1]

\* the rule of the claim: outcome and credit of a hand of total t with bet b
\* against a dealer total d
C8_Regla(t, d, b) ==
    IF t > 21 THEN <<"pierde", 0>>
    ELSE IF d > 21 \/ t > d THEN <<"gana", 2 * b>>
    ELSE IF t = d THEN <<"empata", b>>
    ELSE <<"pierde", 0>>

C8_Apuesta(j, h) == IF h <= Len(j.apuestas) THEN j.apuestas[h] ELSE 0

RECURSIVE C8_Suma(_, _, _)
C8_Suma(j, d, h) ==
    IF h > Len(j.manos) THEN 0
    ELSE C8_Regla(valor_mano(j.manos[h]), d, C8_Apuesta(j, h))[2] + C8_Suma(j, d, h + 1)

\* C8: at settlement every hand gets the outcome of the rule (bust loses,
\* dealer bust or higher total wins 2*b, equal totals push b, otherwise
\* lose) and every balance grows by exactly the credits of its hands.
C8_Liquidacion ==
    \A k \in 1..Len(eventos) :
        eventos[k].tipo = "RESULTADOS" =>
            LET ev == eventos[k]
                d == valor_mano(banca)
            IN  /\ ev.total_banca = d
                /\ Len(jugadores) = Len(ev.antes)
                /\ \A i \in 1..Len(ev.antes) :
                      LET j == ev.antes[i]
                      IN  /\ jugadores[i].id = j.id
                          /\ jugadores[i].saldo = j.saldo + C8_Suma(j, d, 1)
                          /\ \A h \in 1..Len(j.manos) :
                                \E r \in 1..Len(ev.detalle) :
                                    /\ ev.detalle[r][1] = j.id
                                    /\ ev.detalle[r][2] = h - 1
                                    /\ ev.detalle[r][3] =
                                         C8_Regla(valor_mano(j.manos[h]), d, C8_Apuesta(j, h))[1]

C8_Testigo ==
    \E k \in 1..Len(eventos) :
        /\ eventos[k].tipo = "RESULTADOS"
        /\ \E r \in 1..Len(eventos[k].detalle) : eventos[k].detalle[r][3] = "empata"
        /\ \E i \in 1..Len(jugadores) :
              jugadores[i].saldo = eventos[k].antes[i].saldo + eventos[k].antes[i].apuestas[1]

\* C9: when the settlement is broadcast, every hand of every seated
\* participant has held the turn and been played to its end.
C9_TodasLasManosJugadas ==
    \A k \in 1..Len(eventos) :
        eventos[k].tipo = "RESULTADOS" =>
            \A i \in 1..Len(eventos[k].antes) :
                \A h \in 1..Len(eventos[k].antes[i].manos) :
                    <<eventos[k].antes[i].id, h - 1>> \in terminadas

\* C10: within a round the turn moves to the next hand of the same
\* participant if there is one, otherwise to hand 0 of the first participant
\* seated after it that has a bet and a hand; never to a participant without
\* bet or hand, never to an earlier seat.
C10_TurnoSoloAvanza ==
    [][ (en_ronda /\ en_ronda' /\ turno_idx # None /\ turno_idx' # None)
        => LET h == At(jugadores, turno_idx).id
               h2 == At(jugadores', turno_idx').id
           IN  IF h2 = h
               THEN \/ mano_turno_idx' = mano_turno_idx
                    \/ mano_turno_idx' = O0(mano_turno_idx) + 1
               ELSE /\ h2 \in Sentados(jugadores)
                    /\ Asiento(jugadores, h2) > turno_idx
                    /\ mano_turno_idx' = 0
                    /\ Activo(At(jugadores', turno_idx'))
                    /\ \A k \in 0..(turno_idx' - 1) :
                          Asiento(jugadores, At(jugadores', k).id) > turno_idx
                              => ~Activo(At(jugadores', k))
                    /\ h \in Sentados(jugadores')
                          => O0(mano_turno_idx) + 1 >=
                                Len(At(jugadores', Asiento(jugadores', h)).manos)
      ]_vars

\* an INFO broadcast with the given text is among the events
Aceptada(evs, msg) ==
    \E k \in 1..Len(evs) : evs[k].tipo = "INFO" /\ evs[k].mensaje = msg

\* C11: a DIVIDIR is accepted only from a turn holder that has exactly one
\* hand, of exactly two cards of the same rank, and a balance of at least the
\* bet of that hand; so no participant ever holds more than two hands.
C11_DividirSoloUnaMano ==
    [][ (ultimo'.tipo = "DIVIDIR" /\ Aceptada(eventos', "dividio su mano"))
        => /\ TieneTurno(ultimo'.c)
           /\ LET j == At(jugadores, turno_idx)
              IN  /\ Len(j.manos) = 1
                  /\ Len(j.manos[1]) = 2
                  /\ j.manos[1][1][1] = j.manos[1][2][1]
                  /\ j.saldo >= j.apuestas[1]
           /\ \A i \in 1..Len(jugadores') : Len(jugadores'[i].manos) <= 2
      ]_vars

\* C12: an accepted DIVIDIR of the hand <<c1, c2>> with bet b lowers the
\* balance by b, puts in its place two hands of two cards, the first starting
\* with c1 and the second with c2, both with bet b, takes two cards from the
\* shoe, lengthens the bet list by one and leaves turno_idx and
\* mano_turno_idx as they were.
C12_DividirReparte ==
    [][ (ultimo'.tipo = "DIVIDIR" /\ Aceptada(eventos', "dividio su mano"))
        => LET mi == O0(mano_turno_idx)
               j == At(jugadores, turno_idx)
               j2 == At(jugadores', turno_idx)
               mano == At(j.manos, mi)
               b == At(j.apuestas, mi)
           IN  /\ j2.id = j.id
               /\ j2.saldo = j.saldo - b
               /\ Len(j2.manos) = Len(j.manos) + 1
               /\ Len(j2.apuestas) = Len(j.apuestas) + 1
               /\ Len(At(j2.manos, mi)) = 2 /\ At(j2.manos, mi)[1] = mano[1]
               /\ Len(At(j2.manos, mi + 1)) = 2 /\ At(j2.manos, mi + 1)[1] = mano[2]
               /\ At(j2.apuestas, mi) = b /\ At(j2.apuestas, mi + 1) = b
               /\ mazo' = mazo - 2 \/ mazo' = TAM_MAZO - 2
               /\ en_ronda'
               /\ turno_idx' = turno_idx /\ mano_turno_idx' = mano_turno_idx
      ]_vars

C12_Testigo ==
    /\ ultimo.tipo = "DIVIDIR" /\ Aceptada(eventos, "dividio su mano")
    /\ en_ronda /\ turno_idx # None /\ mano_turno_idx = 0
    /\ LET j == At(jugadores, turno_idx)
       IN  /\ j.id = ultimo.c
           /\ Len(j.manos) = 2 /\ j.apuestas = <<Apuesta, Apuesta>>
           /\ j.saldo = SALDO_INICIAL - 2 * Apuesta

\* the seated list as the settlement among the events found it
AntesDe(evs) == evs[CHOOSE k \in 1..Len(evs) : evs[k].tipo = "RESULTADOS"].antes

\* C13: a DOBLAR is accepted only from the turn holder when the hand in turn
\* has exactly two cards and the balance covers its bet b; after it the
\* balance is lower by b, the bet of the hand is 2*b, the hand has three
\* cards, and the turn is no longer on that hand, whatever its total.
C13_DoblarAvanza ==
    [][ (ultimo'.tipo = "DOBLAR" /\ Aceptada(eventos', "doblo"))
        => LET mi == O0(mano_turno_idx)
               j == At(jugadores, turno_idx)
               b == At(j.apuestas, mi)
               despues == IF HayResultados(eventos') THEN AntesDe(eventos')
                          ELSE jugadores'
               j2 == At(despues, turno_idx)
           IN  /\ TieneTurno(ultimo'.c)
               /\ Len(At(j.manos, mi)) = 2
               /\ j.saldo >= b
               /\ j2.id = j.id
               /\ j2.saldo = j.saldo - b
               /\ At(j2.apuestas, mi) = 2 * b
               /\ Len(At(j2.manos, mi)) = 3
               /\ \/ ~en_ronda'
                  \/ turno_idx' # turno_idx
                  \/ mano_turno_idx' # mano_turno_idx
      ]_vars

C13_Testigo ==
    /\ ultimo.tipo = "DOBLAR" /\ Aceptada(eventos, "doblo")
    /\ en_ronda /\ turno_idx # None
    /\ At(jugadores, turno_idx).id # ultimo.c
    /\ \E i \in 1..Len(jugadores) :
          /\ jugadores[i].id = ultimo.c
          /\ jugadores[i].apuestas = <<2 * Apuesta>>
          /\ jugadores[i].saldo = SALDO_INICIAL - 2 * Apuesta
          /\ Len(jugadores[i].manos[1]) = 3
          /\ valor_mano(jugadores[i].manos[1]) > LIMITE

\* the command cmd breaks a rule of the game in the present state: a bet that
\* is not positive or exceeds the balance; a DOBLAR of the turn holder on a
\* hand that has not two cards or whose bet the balance does not cover; a
\* DIVIDIR of the turn holder on a hand that has not two cards, or two of
\* different rank, or whose bet the balance does not cover
ViolaRegla(cmd) ==
    \/ /\ cmd.tipo = "APOSTAR"
       /\ cmd.c \in Sentados(jugadores)
       /\ cmd.monto <= 0 \/ cmd.monto > At(jugadores, Asiento(jugadores, cmd.c)).saldo
    \/ /\ cmd.tipo \in {"DOBLAR", "DIVIDIR"}
       /\ TieneTurno(cmd.c)
       /\ LET j == At(jugadores, turno_idx)
              mi == O0(mano_turno_idx)
          IN  /\ mi < Len(j.manos) /\ mi < Len(j.apuestas)
              /\ \/ Len(At(j.manos, mi)) # 2
                 \/ j.saldo < At(j.apuestas, mi)
                 \/ /\ cmd.tipo = "DIVIDIR"
                    /\ At(j.manos, mi)[1][1] # At(j.manos, mi)[2][1]

\* C14: a command that breaks a rule of the game yields one ERROR to its
\* sender and leaves the whole table unchanged: players (balance, bets,
\* hands, espera_apuesta), phase, dealer, shoe and turn indices.
C14_RechazoSinEfecto ==
    [][ ViolaRegla(ultimo') => (UNCHANGED mesaVars /\ SoloError(eventos', ultimo'.c)) ]_vars

C14_Testigo ==
    /\ ultimo.tipo = "DIVIDIR"
    /\ TieneTurno(ultimo.c)
    /\ LET j == At(jugadores, turno_idx)
       IN  /\ Len(j.manos) = 1 /\ Len(j.manos[1]) = 2
           /\ j.manos[1][1][1] # j.manos[1][2][1]
           /\ j.saldo >= j.apuestas[1]
    /\ SoloError(eventos, ultimo.c)

\* C15: in every settlement the dealer's total is at least 17, and every card
\* the dealer drew beyond its first two was drawn while the value of its
\* hand, aces adjusted, was below 17: a hand worth 17 or more, a soft 17
\* included, gets no further card.
C15_BancaSePlantaEn17 ==
    \A k \in 1..Len(eventos) :
        eventos[k].tipo = "RESULTADOS" =>
            LET b == eventos[k].banca
            IN  /\ Len(b) >= 2
                /\ eventos[k].total_banca = valor_mano(b)
                /\ eventos[k].total_banca >= 17
                /\ \A n \in 2..(Len(b) - 1) : valor_mano(SubSeq(b, 1, n)) < 17

\* the dealer stopped on a soft 17
C15_Testigo ==
    \E k \in 1..Len(eventos) :
        /\ eventos[k].tipo = "RESULTADOS"
        /\ Len(eventos[k].banca) = 2
        /\ {eventos[k].banca[1][1], eventos[k].banca[2][1]} = {"A", "6"}
        /\ eventos[k].total_banca = 17

\* C16: every ESTADO sent while a round is active shows the dealer's first
\* card followed by the placeholder and nothing else; every RESULTADOS
\* carries the dealer's whole hand.
C16_BancaOculta ==
    \A k \in 1..Len(eventos) :
        /\ (eventos[k].tipo = "ESTADO" /\ eventos[k].en_ronda)
              => /\ Len(banca) >= 2
                 /\ eventos[k].banca = <<banca[1], OCULTA>>
        /\ eventos[k].tipo = "RESULTADOS"
              => /\ eventos[k].banca = banca
                 /\ \A n \in 1..Len(banca) : banca[n] \in Cartas

\* one step sent a masked ESTADO and then the settlement with a dealer's hand
\* of three or more cards
C16_Testigo ==
    /\ \E k \in 1..Len(eventos) :
          /\ eventos[k].tipo = "ESTADO" /\ eventos[k].en_ronda
          /\ eventos[k].banca = <<banca[1], OCULTA>>
    /\ \E k \in 1..Len(eventos) :
          /\ eventos[k].tipo = "RESULTADOS"
          /\ Len(eventos[k].banca) >= 3

\* C17: with at most MAX_JUGADORES participants seated, every pop() of a
\* step (deal, SUBIR, DOBLAR, DIVIDIR, dealer draw) finds at least one card
\* in the shoe.
C17_MazoNuncaVacio ==
    Len(jugadores) <= MAX_JUGADORES => \A x \in extracciones : x >= 1

\* a full table was dealt from a shoe that was not reshuffled and went below
\* the threshold during the deal
C17_Testigo ==
    /\ Len(jugadores) = MAX_JUGADORES
    /\ Cardinality(extracciones) = 2 + 2 * MAX_JUGADORES
    /\ \E x \in extracciones : x < UMBRAL_BARAJAR
    /\ mazo >= 1

\* C18: no card is removed from a shoe that holds fewer than 52 cards: every
\* pop() happens on a shoe of at least UMBRAL_BARAJAR cards.
C18_UmbralEnCadaExtraccion ==
    \A x \in extracciones : x >= UMBRAL_BARAJAR

\* the total of a hand with every ace counted as 1
RECURSIVE C19_ConAsesEnUno(_)
C19_ConAsesEnUno(mano) ==
    IF mano = <<>> THEN 0
    ELSE (IF Head(mano)[1] = "A" THEN 1 ELSE VALORES(Head(mano)[1]))
         + C19_ConAsesEnUno(Tail(mano))

\* the totals a hand can be counted as: each ace 1 or 11
C19_Totales(mano) ==
    {C19_ConAsesEnUno(mano) + 10 * n
     : n \in 0..Cardinality({i \in 1..Len(mano) : mano[i][1] = "A"})}

C19_Mejor(mano) ==
    LET buenos == {t \in C19_Totales(mano) : t <= 21}
    IN  IF buenos = {} THEN C19_ConAsesEnUno(mano)
        ELSE CHOOSE t \in buenos : \A u \in buenos : u <= t

\* C19: the value of a hand is the largest total not above 21 that counting
\* each ace as 11 or as 1 can give, and the total with every ace as 1 when
\* there is none.
C19_ValorDeLaMano ==
    /\ valor_mano(banca) = C19_Mejor(banca)
    /\ \A k \in 1..Len(eventos) :
          eventos[k].tipo = "TOTAL" => eventos[k].total_banca = C19_Mejor(banca)

\* the hand A, A, 9 was valued 21
C19_Testigo ==
    /\ Len(banca) = 3
    /\ banca[1][1] = "A" /\ banca[2][1] = "A" /\ banca[3][1] = "9"
    /\ eventos # <<>> /\ eventos[1].tipo = "TOTAL" /\ eventos[1].total_banca = 21

\* C20: the phase goes from betting to round only when every participant
\* seated at that moment has sent an accepted APOSTAR or a CANCELAR_APUESTA
\* since the betting phase was opened, and some participant has a positive
\* bet.
C20_RondaTrasRespuestas ==
    [][ (en_apuestas /\ ~en_ronda /\ en_ronda')
        => /\ \A i \in 1..Len(jugadores') : jugadores'[i].id \in respondieron'
           /\ \E i \in 1..Len(jugadores') :
                 /\ jugadores'[i].apuestas # <<>>
                 /\ jugadores'[i].apuestas[1] > 0
      ]_vars

C22_RepartoInicial ==
    [][ (en_apuestas /\ ~en_ronda /\ en_ronda')
        => /\ Len(banca') = 2
           /\ \A i \in 1..Len(jugadores') :
                 LET j == jugadores'[i]
                 IN  /\ (j.apuestas # <<>> /\ j.apuestas[1] > 0)
                           => Len(j.manos) = 1 /\ Len(j.manos[1]) = 2
                     /\ j.apuestas = <<>> => j.manos = <<>>
           /\ turno_idx' # None
           /\ turno_idx' = Minimo({k \in 0..(Len(jugadores') - 1) :
                                      At(jugadores', k).manos # <<>>})
           /\ mano_turno_idx' = 0
      ]_vars

\* the round opened with seat 0 out of it: the turn went to seat 1
C22_Testigo ==
    /\ ultimo.tipo = "APOSTAR"
    /\ \E k \in 1..Len(eventos) : eventos[k].tipo = "RONDA_INICIADA"
    /\ en_ronda /\ Len(banca) = 2
    /\ Len(jugadores) = 2
    /\ jugadores[1].apuestas = <<>> /\ jugadores[1].manos = <<>>
    /\ Len(jugadores[2].manos) = 1 /\ Len(jugadores[2].manos[1]) = 2
    /\ turno_idx = 1 /\ mano_turno_idx = 0

\* an APUESTA_OK broadcast is among the events
ApuestaOk(evs) == \E k \in 1..Len(evs) : evs[k].tipo = "APUESTA_OK"

\* C23: an accepted APOSTAR of amount m has m > 0 and m within the sender's
\* balance; it takes exactly m from that balance, leaves the sender with the
\* single bet entry [m] and a cleared awaiting-flag, and then runs the start
\* check (betting with everyone answered goes to the round in that step, any
\* other phase stays); no other participant's balance, bets or flag change.
C23_ApuestaAceptada ==
    [][ (ultimo'.tipo = "APOSTAR" /\ ApuestaOk(eventos'))
        => LET c == ultimo'.c
               monto == ultimo'.monto
               i == Asiento(jugadores, c) + 1
           IN  /\ monto > 0 /\ monto <= jugadores[i].saldo
               /\ Len(jugadores') = Len(jugadores)
               /\ jugadores'[i].id = c
               /\ jugadores'[i].saldo = jugadores[i].saldo - monto
               /\ jugadores'[i].apuestas = <<monto>>
               /\ ~jugadores'[i].espera_apuesta
               /\ \A k \in 1..Len(jugadores) :
                     k # i => /\ jugadores'[k].id = jugadores[k].id
                              /\ jugadores'[k].saldo = jugadores[k].saldo
                              /\ jugadores'[k].apuestas = jugadores[k].apuestas
                              /\ jugadores'[k].espera_apuesta = jugadores[k].espera_apuesta
               /\ IF en_apuestas /\ \A k \in 1..Len(jugadores') :
                                       ~jugadores'[k].espera_apuesta
                  THEN en_ronda' /\ ~en_apuestas'
                  ELSE en_ronda' = en_ronda /\ en_apuestas' = en_apuestas
      ]_vars

\* the second of two bets was accepted and opened the round in the same step
C23_Testigo ==
    /\ ultimo.tipo = "APOSTAR" /\ ultimo.monto = Apuesta
    /\ ApuestaOk(eventos)
    /\ \E k \in 1..Len(eventos) : eventos[k].tipo = "RONDA_INICIADA"
    /\ Len(jugadores) = 2
    /\ \A i \in 1..2 : /\ jugadores[i].saldo = SALDO_INICIAL - Apuesta
                        /\ jugadores[i].apuestas = <<Apuesta>>
    /\ en_ronda

C24_TestigoRechazo ==
    /\ ultimo.tipo = "INICIAR"
    /\ en_ronda
    /\ SoloError(eventos, ultimo.c)

\* the RESULTADOS broadcasts among the events
Liquidaciones(evs) == {k \in 1..Len(evs) : evs[k].tipo = "RESULTADOS"}

\* C25: a round ends by exactly one RESULTADOS broadcast and there is none
\* outside a round; it carries exactly one record for every pair of a seated
\* participant and one of its hands, and nothing else; right after it the
\* table is idle, both turn indices are undefined, and every seated
\* participant has no hands, no bets and a cleared awaiting-flag.
C25_UnaLiquidacionPorRonda ==
    [][ /\ (en_ronda /\ ~en_ronda') => Cardinality(Liquidaciones(eventos')) = 1
        /\ ~en_ronda => Liquidaciones(eventos') = {}
        /\ \A k \in Liquidaciones(eventos') :
              LET ev == eventos'[k]
                  pares == UNION {{<<ev.antes[i].id, h>> :
                                     h \in 0..(Len(ev.antes[i].manos) - 1)} :
                                  i \in 1..Len(ev.antes)}
              IN  /\ Len(ev.detalle) = Cardinality(pares)
                  /\ \A p \in pares :
                        Cardinality({r \in 1..Len(ev.detalle) :
                                       ev.detalle[r][1] = p[1] /\ ev.detalle[r][2] = p[2]}) = 1
                  /\ ~en_ronda' /\ ~en_apuestas'
                  /\ turno_idx' = None /\ mano_turno_idx' = None
                  /\ \A i \in 1..Len(jugadores') :
                        /\ jugadores'[i].manos = <<>>
                        /\ jugadores'[i].apuestas = <<>>
                        /\ ~jugadores'[i].espera_apuesta
      ]_vars

\* a round of two participants, one of them with a divided hand, was settled
\* with three records
C25_Testigo ==
    /\ ~en_ronda /\ ~en_apuestas /\ rondas = 1
    /\ Len(jugadores) = 2
    /\ \E k \in Liquidaciones(eventos) :
          /\ Len(eventos[k].antes) = 2
          /\ \E i \in 1..2 : Len(eventos[k].antes[i].manos) = 2
          /\ Len(eventos[k].detalle) = 3

\* C26: when a participant that does not hold the turn leaves during a round,
\* the turn stays with the participant that held it, on the same hand, and
\* that participant's hands and bets are untouched: turno_idx goes down by one
\* when the vacated seat was before the holder's and stays when it was after.
C26_SalidaSinTurno ==
    [][ \A c \in Clientes :
          ( /\ ultimo'.tipo = "SALIR" /\ ultimo'.c = c
            /\ pc[c] = "sentado" /\ pc'[c] = "fuera"
            /\ en_ronda /\ turno_idx # None
            /\ At(jugadores, turno_idx).id # c )
          => LET h == At(jugadores, turno_idx)
             IN  /\ en_ronda'
                 /\ turno_idx' = IF Asiento(jugadores, c) < turno_idx
                                 THEN turno_idx - 1 ELSE turno_idx
                 /\ At(jugadores', turno_idx').id = h.id
                 /\ At(jugadores', turno_idx').manos = h.manos
                 /\ At(jugadores', turno_idx').apuestas = h.apuestas
                 /\ mano_turno_idx' = mano_turno_idx
      ]_vars

\* client 1 played its hand, the turn passed to client 2 at the seat after
\* it, and client 1 left: the holder is now at seat 0 and the turn is there
C26_Testigo ==
    /\ ultimo = Cmd(1, "SALIR", 0)
    /\ terminadas = {<<1, 0>>}
    /\ pc[1] = "fuera" /\ pc[2] = "sentado"
    /\ en_ronda
    /\ Len(jugadores) = 1 /\ jugadores[1].id = 2 /\ jugadores[1].manos # <<>>
    /\ turno_idx = 0
    /\ \E k \in 1..Len(eventos) : eventos[k].tipo = "ESTADO" /\ eventos[k].turno = 2

\* C27: when a participant that has not answered leaves during the betting
\* phase and every participant still seated has answered, the phase leaves
\* betting in that same step: to the round when one of them holds a bet, to
\* idle otherwise.
C27_SalidaNoBloquea ==
    [][ \A c \in Clientes :
          ( /\ ultimo'.tipo = "SALIR" /\ ultimo'.c = c
            /\ pc[c] = "sentado" /\ pc'[c] = "fuera"
            /\ en_apuestas /\ ~en_ronda
            /\ At(jugadores, Asiento(jugadores, c)).espera_apuesta
            /\ \A i \in 1..Len(jugadores) :
                  jugadores[i].id # c => ~jugadores[i].espera_apuesta )
          => /\ ~en_apuestas'
             /\ en_ronda' <=> \E i \in 1..Len(jugadores) :
                                 jugadores[i].id # c /\ jugadores[i].apuestas # <<>>
      ]_vars

\* the same, at a table where somebody stays seated
C27_SalidaNoBloqueaConOtros ==
    [][ \A c \in Clientes :
          ( /\ ultimo'.tipo = "SALIR" /\ ultimo'.c = c
            /\ pc[c] = "sentado" /\ pc'[c] = "fuera"
            /\ en_apuestas /\ ~en_ronda
            /\ Len(jugadores) > 1
            /\ At(jugadores, Asiento(jugadores, c)).espera_apuesta
            /\ \A i \in 1..Len(jugadores) :
                  jugadores[i].id # c => ~jugadores[i].espera_apuesta )
          => /\ ~en_apuestas'
             /\ en_ronda' <=> \E i \in 1..Len(jugadores) :
                                 jugadores[i].id # c /\ jugadores[i].apuestas # <<>>
      ]_vars

\* C28: every step of a worker that reads or writes the table runs while the
\* worker holds the lock, and nothing another worker does to the seated list
\* comes between the steps of one worker's admission.
C28_TodoBajoCerrojo ==
    [][ /\ ultimo'.tipo \in ConCerrojo
        /\ \A c \in Clientes :
              (pc[c] = "admitido" /\ pc'[c] = "admitido") => jugadores' = jugadores
      ]_vars

\* C29: broadcasts go out in the order of the changes that caused them:
\* while the UNIDO of a seated participant has not been sent, the only
\* broadcast that can go out is the UNIDO of a participant seated no later,
\* never the event of a change applied after the seating.
C29_DifusionEnOrden ==
    [][ \A d \in Clientes :
          ( /\ pc[d] = "unido"
            /\ \E k \in 1..Len(eventos') : eventos'[k].a = 0 )
          => \/ /\ ultimo'.tipo = "UNIDO"
                /\ Asiento(jugadores, ultimo'.c) <= Asiento(jugadores, d)
             \/ /\ ultimo'.tipo # "UNIDO"
                /\ UNCHANGED mesaVars
      ]_vars

\* C30: a line that is not a command (not JSON, JSON that is not an object,
\* an object without "tipo") is dropped or answered with an ERROR to its
\* sender; the sender stays seated and the table is unchanged.
C30_LineaMalformada ==
    [][ ultimo'.tipo \in Clases
        => /\ pc' = pc
           /\ UNCHANGED mesaVars
           /\ eventos' = <<>> \/ SoloError(eventos', ultimo'.c)
      ]_vars

\* C31: turno_idx and mano_turno_idx are both defined or both undefined in
\* every reachable state.
C31_IndicesJuntos ==
    (turno_idx = None) <=> (mano_turno_idx = None)

\* the holder was on its second hand when the participant seated before it
\* left: the turn moved down to seat 0 and stayed on hand 1
C31_Testigo ==
    /\ ultimo = Cmd(1, "SALIR", 0)
    /\ en_ronda
    /\ Len(jugadores) = 1 /\ jugadores[1].id = 2
    /\ terminadas = {<<1, 0>>, <<2, 0>>}
    /\ turno_idx = 0 /\ mano_turno_idx = 1

\* the participants as they stand once the command has acted and before any
\* settlement of the same step clears them
TrasComando(evs, js) ==
    IF HayResultados(evs)
    THEN evs[CHOOSE k \in 1..Len(evs) : evs[k].tipo = "RESULTADOS"].antes
    ELSE js

\* the card an accepted SUBIR reported
Pedida(evs) ==
    evs[CHOOSE k \in 1..Len(evs) : evs[k].tipo = "INFO" /\ evs[k].mensaje = "pidio"]

\* C32: an accepted SUBIR appends exactly one card to the hand of the turn
\* holder the turn is on and changes no other hand, no bet and no balance;
\* the turn moves in that step exactly when the new total is over 21. An
\* accepted QUEDARSE changes no card and moves the turn.
C32_SubirYQuedarse ==
    [][ /\ (ultimo'.tipo = "SUBIR" /\ Aceptada(eventos', "pidio"))
           => LET t == turno_idx + 1
                  mi == O0(mano_turno_idx) + 1
                  js == TrasComando(eventos', jugadores')
                  ev == Pedida(eventos')
              IN  /\ js = [jugadores EXCEPT ![t].manos[mi] = Append(@, ev.carta)]
                  /\ ev.total = valor_mano(js[t].manos[mi])
                  /\ (ev.total > LIMITE)
                        <=> (<<turno_idx', mano_turno_idx'>> # <<turno_idx, mano_turno_idx>>)
        /\ (ultimo'.tipo = "QUEDARSE" /\ Aceptada(eventos', "se planta"))
           => /\ TrasComando(eventos', jugadores') = jugadores
              /\ <<turno_idx', mano_turno_idx'>> # <<turno_idx, mano_turno_idx>>
      ]_vars

\* a SUBIR took the hand over 21 and the turn moved on to seat 1
C32_Testigo ==
    /\ ultimo.tipo = "SUBIR"
    /\ Aceptada(eventos, "pidio") /\ Pedida(eventos).total > LIMITE
    /\ en_ronda /\ turno_idx = 1
    /\ Len(jugadores[1].manos[1]) = 3

\* C33: when the settlement runs, every seated participant that has hands
\* has at least as many bets as hands, so no hand is settled with a bet
\* padded to 0.
C33_SinRelleno ==
    \A k \in Liquidaciones(eventos) :
        \A i \in 1..Len(eventos[k].antes) :
            LET j == eventos[k].antes[i]
            IN  j.manos # <<>> => Len(j.apuestas) >= Len(j.manos)

\* a settlement of a participant with two hands and two bets
C33_Testigo ==
    \E k \in Liquidaciones(eventos) :
        \E i \in 1..Len(eventos[k].antes) :
            /\ Len(eventos[k].antes[i].manos) = 2
            /\ Len(eventos[k].antes[i].apuestas) = 2

RECURSIVE SumaApuestas(_)
SumaApuestas(ap) == IF ap = <<>> THEN 0 ELSE Head(ap) + SumaApuestas(Tail(ap))

\* what a participant owns: its balance and the stakes it has on the table
Fichas(j) == j.saldo + SumaApuestas(j.apuestas)

\* C34: between the opening of the betting and the settlement, no APOSTAR,
\* CANCELAR_APUESTA, DOBLAR, DIVIDIR, SUBIR or QUEDARSE changes the balance
\* plus the recorded bets of any seated participant.
C34_FichasConservadas ==
    [][ ( /\ en_apuestas \/ en_ronda
          /\ ultimo'.tipo \in {"APOSTAR", "CANCELAR_APUESTA", "DOBLAR", "DIVIDIR",
                                "SUBIR", "QUEDARSE"}
          /\ ~HayResultados(eventos') )
        => /\ Len(jugadores') = Len(jugadores)
           /\ \A i \in 1..Len(jugadores) : Fichas(jugadores'[i]) = Fichas(jugadores[i])
      ]_vars

\* the same for the commands of the round alone
C34_FichasConservadasEnJuego ==
    [][ ( /\ en_apuestas \/ en_ronda
          /\ ultimo'.tipo \in {"DOBLAR", "DIVIDIR", "SUBIR", "QUEDARSE"}
          /\ ~HayResultados(eventos') )
        => /\ Len(jugadores') = Len(jugadores)
           /\ \A i \in 1..Len(jugadores) : Fichas(jugadores'[i]) = Fichas(jugadores[i])
      ]_vars

\* the bet the settlement used for hand h (0-based) of participant j
ApuestaDe(j, h) == IF h < Len(j.apuestas) THEN j.apuestas[h + 1] ELSE 0

\* what the outcome res credits to the balance for a bet ap
Credito(res, ap) == IF res = "gana" THEN 2 * ap ELSE IF res = "empata" THEN ap ELSE 0

RECURSIVE SumaCreditos(_, _, _)
SumaCreditos(detalle, j, r) ==
    IF r > Len(detalle) THEN 0
    ELSE (IF detalle[r][1] = j.id
          THEN Credito(detalle[r][3], ApuestaDe(j, detalle[r][2])) ELSE 0)
         + SumaCreditos(detalle, j, r + 1)

\* C35: in every record of a settlement the reported delta is the credit
\* applied to the balance minus the bet of the hand: +bet for "gana"
\* (credit 2 * bet), 0 for "empata" (credit bet), -bet for "pierde" (no
\* credit); and the balance after the settlement is the balance before it
\* plus those credits.
C35_DeltaEsCreditoMenosApuesta ==
    \A k \in Liquidaciones(eventos) :
        LET ev == eventos[k]
        IN  /\ Len(jugadores) = Len(ev.antes)
            /\ \A i \in 1..Len(ev.antes) :
                  LET j == ev.antes[i]
                  IN  /\ jugadores[i].id = j.id
                      /\ jugadores[i].saldo = j.saldo + SumaCreditos(ev.detalle, j, 1)
                      /\ \A r \in 1..Len(ev.detalle) :
                            ev.detalle[r][1] = j.id
                            => LET res == ev.detalle[r][3]
                                   ap == ApuestaDe(j, ev.detalle[r][2])
                               IN  /\ res \in {"gana", "empata", "pierde"}
                                   /\ ev.detalle[r][4] = Credito(res, ap) - ap
                                   /\ res = "gana" => ev.detalle[r][4] = ap
                                   /\ res = "empata" => ev.detalle[r][4] = 0
                                   /\ res = "pierde" => ev.detalle[r][4] = 0 - ap

\* a settlement with a lost hand, reported with the delta -bet
C35_Testigo ==
    \E k \in Liquidaciones(eventos) :
        \E r \in 1..Len(eventos[k].detalle) :
            /\ eventos[k].detalle[r][3] = "pierde"
            /\ eventos[k].detalle[r][4] < 0

\* C36: in every reachable state turno_idx is defined exactly when a round
\* is active, a defined turno_idx is the seat of a seated participant, and
\* the betting and round flags are never both set.
C36_TurnoValido ==
    /\ (turno_idx # None) <=> en_ronda
    /\ turno_idx # None => 0 <= turno_idx /\ turno_idx < Len(jugadores)
    /\ ~(en_apuestas /\ en_ronda)

\* a participant left a round of three and the turn is on the last seat of
\* the two that remain
C36_Testigo ==
    /\ ultimo.tipo = "SALIR"
    /\ en_ronda
    /\ Len(jugadores) = 2
    /\ turno_idx = 1
    /\ Cardinality({c \in Clientes : pc[c] = "fuera"}) = 1

\* C37: in every reachable state of the betting phase some seated
\* participant still has its awaiting-flag set; in particular the table is
\* not in the betting phase with nobody seated.
C37_ApuestasConAlguien ==
    en_apuestas => \E i \in 1..Len(jugadores) : jugadores[i].espera_apuesta

\* hand h (0-based) of participant id and its bet are the same in js2 as in js1
MismaMano(js1, js2, id, h) ==
    LET a == At(js1, Asiento(js1, id))
        b == At(js2, Asiento(js2, id))
    IN  h < Len(a.manos)
        => /\ h < Len(b.manos) /\ b.manos[h + 1] = a.manos[h + 1]
           /\ h < Len(a.apuestas)
                 => h < Len(b.apuestas) /\ b.apuestas[h + 1] = a.apuestas[h + 1]

\* C38: once the turn has moved off a hand, no command of the same round,
\* from any participant, adds a card to that hand or changes its bet before
\* the settlement.
C38_ManoTerminadaFinal ==
    [][ (en_ronda /\ en_ronda' /\ ~HayResultados(eventos'))
        => \A p \in terminadas :
              (p[1] \in Sentados(jugadores) /\ p[1] \in Sentados(jugadores'))
              => MismaMano(jugadores, jugadores', p[1], p[2])
      ]_vars

\* the same for every command but APOSTAR and CANCELAR_APUESTA
C38_ManoTerminadaFinalEnJuego ==
    [][ ( /\ en_ronda /\ en_ronda' /\ ~HayResultados(eventos')
          /\ ultimo'.tipo \notin {"APOSTAR", "CANCELAR_APUESTA"} )
        => \A p \in terminadas :
              (p[1] \in Sentados(jugadores) /\ p[1] \in Sentados(jugadores'))
              => MismaMano(jugadores, jugadores', p[1], p[2])
      ]_vars

\* C39: when the participant holding the turn always ends up sending
\* QUEDARSE or leaving, every round that has started ends: the dealer's draw
\* finishes, RESULTADOS is broadcast and the table is idle again.
C39_RondaTermina ==
    en_ronda ~> (~en_ronda /\ ~en_apuestas /\ HayResultados(eventos))

\* the answer of the turn holder is possible exactly in the states of a
\* round, which makes JustoTurno the weak fairness of that answer
C39_TurnoPosibleEnRonda ==
    en_ronda <=> ENABLED <<\E c \in TodosClientes : TurnoResponde(c)>>_vars

\* a round of two participants was ended by the QUEDARSE of the second
C39_Testigo ==
    /\ ultimo = Cmd(2, "QUEDARSE", 0)
    /\ terminadas = {<<1, 0>>, <<2, 0>>}
    /\ Len(jugadores) = 2
    /\ ~en_ronda /\ ~en_apuestas /\ HayResultados(eventos)

====
